---- MODULE Spec2Model ----
(***************************************************************************)
(* GTN Manager (FDS_Project_MagdalenaZheleva.cpp): the catalog of items    *)
(* and its three engines: merge sort of tasks by priority / deadline,      *)
(* heap sort of goals by progress, KMP full-text search and tag search of  *)
(* notes.                                                                  *)
(*                                                                         *)
(* Conventions.                                                            *)
(*  - A std::string is a sequence of character codes (ASCII).              *)
(*  - A vector<Task*> / vector<Goal*> / vector<Note*> is a sequence of     *)
(*    pointers; a pointer to a catalog item is the item's position in      *)
(*    `items` (items are only ever appended, so positions are stable).     *)
(*  - The code's vectors are 0-based; At/Put translate a 0-based index     *)
(*    into the 1-based TLA+ sequence.                                      *)
(*  - A double progress p is held as the integer p * ProgressUnit.         *)
(***************************************************************************)
EXTENDS Integers, Sequences, FiniteSets, TLC

VARIABLES items,     \* vector<Item*> items of main(): the catalog
          op,        \* the menu operation that ran last ("none" at start)
          arg,       \* the text entered for that operation (pattern / tag)
          out,       \* the items displayed by that operation, in order
          notFound,  \* TRUE iff the operation printed its "No ... found" line
          touched,   \* <<left, right, index>> of every vector access in merge
          text,      \* KMPSearch: its argument text
          pattern,   \* KMPSearch: its argument pattern
          result,    \* KMPSearch: its return value ("none" before the call)
          menu,      \* where the program waits for input: "load", "main", "tasks",
                     \* "goals", "notes", "protected", "exit" ("engine": not running)
          cinFail,   \* the failbit of cin
          log,       \* what the command that ran last wrote to cout, as events
          cursor,    \* protected-notes view: position in notes of the note asked about
          loader,    \* loadDataFromFile: its local variables, kept from line to line
          run        \* an engine call followed step by step (SpecEngines)

progvars == <<menu, cinFail, log, cursor, loader, run>>

vars == <<items, op, arg, out, notFound, touched, text, pattern, result,
          menu, cinFail, log, cursor, loader, run>>

\* the program itself is not running: an engine is called on a given catalog
EngineOnly ==
    /\ menu = "engine"
    /\ cinFail = FALSE
    /\ log = <<>>
    /\ cursor = 0
    /\ loader = "closed"
    /\ run = "none"

----------------------------------------------------------------------------
(* Bounds *)

MaxTasks == 4
MaxGoals == 4
MaxText == 4
MaxPattern == 3
MaxNotes == 3
MaxArg == 2

----------------------------------------------------------------------------
(* Vectors and strings *)

At(v, i) == v[i + 1]

Put(v, i, x) == [v EXCEPT ![i + 1] = x]

\* The sequences over S of length at most n
SeqUpTo(S, n) == UNION {[1..k -> S] : k \in 0..n}

\* a comparison that puts the shorter string first
StrLeqByLength(a, b) == Len(a) <= Len(b)

\* std::string operator<= / char_traits<char>::compare: the first differing
\* character decides; when one string is a prefix of the other, the shorter
\* one is smaller.
RECURSIVE StrLeq(_, _)
StrLeq(a, b) ==
    IF a = <<>> THEN TRUE
    ELSE IF b = <<>> THEN FALSE
    ELSE IF Head(a) # Head(b) THEN Head(a) < Head(b)
    ELSE StrLeq(Tail(a), Tail(b))

----------------------------------------------------------------------------
(* Items *)

TaskKinds == {"Task", "RecurringTask", "OneTimeTask"}
GoalKinds == {"Goal", "QuantifiableGoal", "NonQuantifiableGoal"}
NoteKinds == {"Note", "ProtectedNote", "PublicNote"}

\* dynamic_cast<Task*>(item) != nullptr
IsTask(it) == it.kind \in TaskKinds

\* the loop of handleTasks that collects the Task pointers of the catalog
RECURSIVE CollectTasks(_, _)
CollectTasks(its, n) ==
    IF n = 0 THEN <<>>
    ELSE LET rest == CollectTasks(its, n - 1)
         IN IF IsTask(its[n]) THEN Append(rest, n) ELSE rest

----------------------------------------------------------------------------
(* Key-ordering engine: merge sort by priority *)

\* the comparison of merge turned round
PriorityLeqReversed(a, b) == items[a].priority >= items[b].priority

\* the comparison of merge made strict
PriorityLeqStrict(a, b) == items[a].priority < items[b].priority

\* the condition of merge's comparison: L[i]->priority <= R[j]->priority
PriorityLeq(a, b) == items[a].priority <= items[b].priority

\* The three while loops of merge: s.t is the vector, s.acc the accesses.
RECURSIVE mergeLoops(_, _, _, _, _, _, _, _)
mergeLoops(s, L, R, i, j, k, left, right) ==
    LET n1 == Len(L)
        n2 == Len(R)
        takeL == [t |-> Put(s.t, k, At(L, i)), acc |-> s.acc \cup {<<left, right, k>>}]
        takeR == [t |-> Put(s.t, k, At(R, j)), acc |-> s.acc \cup {<<left, right, k>>}]
    IN IF i < n1 /\ j < n2
       THEN IF PriorityLeq(At(L, i), At(R, j))
            THEN mergeLoops(takeL, L, R, i + 1, j, k + 1, left, right)
            ELSE mergeLoops(takeR, L, R, i, j + 1, k + 1, left, right)
       ELSE IF i < n1 THEN mergeLoops(takeL, L, R, i + 1, j, k + 1, left, right)
       ELSE IF j < n2 THEN mergeLoops(takeR, L, R, i, j + 1, k + 1, left, right)
       ELSE s

\* merge with the second half copied from tasks[mid + j]
mergeRightFromMid(s, left, mid, right) ==
    LET n1 == mid - left + 1
        n2 == right - mid
        L == [i \in 1..n1 |-> At(s.t, left + (i - 1))]
        R == [j \in 1..n2 |-> At(s.t, mid + (j - 1))]
        reads == {<<left, right, left + i>> : i \in 0..(n1 - 1)}
                 \cup {<<left, right, mid + j>> : j \in 0..(n2 - 1)}
    IN mergeLoops([t |-> s.t, acc |-> s.acc \cup reads], L, R, 0, 0, left, left, right)

merge(s, left, mid, right) ==
    LET n1 == mid - left + 1
        n2 == right - mid
        L == [i \in 1..n1 |-> At(s.t, left + (i - 1))]
        R == [j \in 1..n2 |-> At(s.t, mid + 1 + (j - 1))]
        reads == {<<left, right, left + i>> : i \in 0..(n1 - 1)}
                 \cup {<<left, right, mid + 1 + j>> : j \in 0..(n2 - 1)}
    IN mergeLoops([t |-> s.t, acc |-> s.acc \cup reads], L, R, 0, 0, left, left, right)

RECURSIVE mergeSort(_, _, _)
mergeSort(s, left, right) ==
    IF left >= right THEN s
    ELSE LET mid == left + ((right - left) \div 2)
         IN merge(mergeSort(mergeSort(s, left, mid), mid + 1, right), left, mid, right)

----------------------------------------------------------------------------
(* Key-ordering engine: merge sort by deadline *)

\* the condition of mergeByDeadline's comparison: L[i]->deadline <= R[j]->deadline
DeadlineLeq(a, b) == StrLeq(items[a].deadline, items[b].deadline)

RECURSIVE mergeByDeadlineLoops(_, _, _, _, _, _, _, _)
mergeByDeadlineLoops(s, L, R, i, j, k, left, right) ==
    LET n1 == Len(L)
        n2 == Len(R)
        takeL == [t |-> Put(s.t, k, At(L, i)), acc |-> s.acc \cup {<<left, right, k>>}]
        takeR == [t |-> Put(s.t, k, At(R, j)), acc |-> s.acc \cup {<<left, right, k>>}]
    IN IF i < n1 /\ j < n2
       THEN IF DeadlineLeq(At(L, i), At(R, j))
            THEN mergeByDeadlineLoops(takeL, L, R, i + 1, j, k + 1, left, right)
            ELSE mergeByDeadlineLoops(takeR, L, R, i, j + 1, k + 1, left, right)
       ELSE IF i < n1 THEN mergeByDeadlineLoops(takeL, L, R, i + 1, j, k + 1, left, right)
       ELSE IF j < n2 THEN mergeByDeadlineLoops(takeR, L, R, i, j + 1, k + 1, left, right)
       ELSE s

mergeByDeadline(s, left, mid, right) ==
    LET n1 == mid - left + 1
        n2 == right - mid
        L == [i \in 1..n1 |-> At(s.t, left + (i - 1))]
        R == [j \in 1..n2 |-> At(s.t, mid + 1 + (j - 1))]
        reads == {<<left, right, left + i>> : i \in 0..(n1 - 1)}
                 \cup {<<left, right, mid + 1 + j>> : j \in 0..(n2 - 1)}
    IN mergeByDeadlineLoops([t |-> s.t, acc |-> s.acc \cup reads], L, R, 0, 0, left, left, right)

RECURSIVE mergeSortByDeadline(_, _, _)
mergeSortByDeadline(s, left, right) ==
    IF left >= right THEN s
    ELSE LET mid == left + ((right - left) \div 2)
         IN mergeByDeadline(mergeSortByDeadline(mergeSortByDeadline(s, left, mid), mid + 1, right),
                            left, mid, right)

----------------------------------------------------------------------------
(* Tasks menu *)

\* deadlines a task can carry: "2024-10-01", "2024-5-01" (not zero-padded),
\* "2024" (a prefix of the others) and "No Deadline"
D_2024_10_01 == <<50, 48, 50, 52, 45, 49, 48, 45, 48, 49>>
D_2024_5_01 == <<50, 48, 50, 52, 45, 53, 45, 48, 49>>
D_2024 == <<50, 48, 50, 52>>
D_NoDeadline == <<78, 111, 32, 68, 101, 97, 100, 108, 105, 110, 101>>

\* the items a catalog of the Tasks menu is drawn from (one of them no task)
TaskPool ==
    {[kind |-> "Task", deadline |-> D_2024_10_01, priority |-> 1],
     [kind |-> "Task", deadline |-> D_2024_5_01, priority |-> 3],
     [kind |-> "OneTimeTask", deadline |-> D_2024, priority |-> 5],
     [kind |-> "Task", deadline |-> D_NoDeadline, priority |-> 1],
     [kind |-> "Task", deadline |-> D_2024_10_01, priority |-> 3],
     [kind |-> "OneTimeTask", deadline |-> D_2024_5_01, priority |-> 5],
     [kind |-> "RecurringTask", deadline |-> D_2024, priority |-> 3],
     [kind |-> "Goal", progress |-> 0]}

InitTasks ==
    /\ EngineOnly
    /\ items \in SeqUpTo(TaskPool, MaxTasks)
    /\ op = "none"
    /\ arg = <<>>
    /\ out = <<>>
    /\ notFound = FALSE
    /\ touched = {}
    /\ text = <<>>
    /\ pattern = <<>>
    /\ result = "none"

\* handleTasks, case 5: mergeSort(tasks, 0, tasks.size() - 1) and display.
\* For the empty vector tasks.size() - 1 wraps to the largest size_t and is
\* narrowed to the int -1.
SortByPriority ==
    /\ UNCHANGED progvars
    /\ LET tasks == CollectTasks(items, Len(items))
           s == mergeSort([t |-> tasks, acc |-> {}], 0, Len(tasks) - 1)
       IN /\ out' = s.t
          /\ touched' = s.acc
    /\ op' = "sortPriority"
    /\ UNCHANGED <<items, arg, notFound, text, pattern, result>>

\* handleTasks, case 6: mergeSortByDeadline(tasks, 0, tasks.size() - 1) and display
SortByDeadline ==
    /\ UNCHANGED progvars
    /\ LET tasks == CollectTasks(items, Len(items))
           s == mergeSortByDeadline([t |-> tasks, acc |-> {}], 0, Len(tasks) - 1)
       IN /\ out' = s.t
          /\ touched' = s.acc
    /\ op' = "sortDeadline"
    /\ UNCHANGED <<items, arg, notFound, text, pattern, result>>

NextTasks == SortByPriority \/ SortByDeadline

SpecTasks == InitTasks /\ [][NextTasks]_vars

----------------------------------------------------------------------------
(* Progress-ranking engine: heap sort *)

\* a progress p (double) is held as the integer p * ProgressUnit (tenths)
ProgressUnit == 10

\* the value -1.0 that NonQuantifiableGoal::getProgress returns and heapify tests
Sentinel == (-1) * ProgressUnit

\* Goal::getProgress and its overrides
getProgress(g) == IF g.kind = "NonQuantifiableGoal" THEN Sentinel ELSE g.progress

\* dynamic_cast<Goal*>(item) != nullptr
IsGoal(it) == it.kind \in GoalKinds

\* the loop of handleGoals that collects the Goal pointers of the catalog
RECURSIVE CollectGoals(_, _)
CollectGoals(its, n) ==
    IF n = 0 THEN <<>>
    ELSE LET rest == CollectGoals(its, n - 1)
         IN IF IsGoal(its[n]) THEN Append(rest, n) ELSE rest

\* the test of heapify with the comparison turned round (a min-heap)
childIsLess(goals, child, largest) ==
    /\ getProgress(items[At(goals, child)]) < getProgress(items[At(goals, largest)])
    /\ getProgress(items[At(goals, child)]) # Sentinel

\* the test of heapify on a child: goals[child]->getProgress() >
\* goals[largest]->getProgress() && goals[child]->getProgress() != -1
childIsGreater(goals, child, largest) ==
    /\ getProgress(items[At(goals, child)]) > getProgress(items[At(goals, largest)])
    /\ getProgress(items[At(goals, child)]) # Sentinel

\* std::swap(goals[a], goals[b])
swap(goals, a, b) == Put(Put(goals, a, At(goals, b)), b, At(goals, a))

RECURSIVE heapify(_, _, _)
heapify(goals, n, i) ==
    LET left == 2 * i + 1
        right == 2 * i + 2
        l1 == IF left < n /\ childIsGreater(goals, left, i) THEN left ELSE i
        largest == IF right < n /\ childIsGreater(goals, right, l1) THEN right ELSE l1
    IN IF largest # i THEN heapify(swap(goals, i, largest), n, largest) ELSE goals

\* the first loop of heapSort: for (i = n / 2 - 1; i >= 0; i--) heapify(goals, n, i)
RECURSIVE buildHeap(_, _, _)
buildHeap(goals, n, i) ==
    IF i >= 0 THEN buildHeap(heapify(goals, n, i), n, i - 1) ELSE goals

\* the second loop: for (i = n - 1; i >= 0; i--) { swap(goals[0], goals[i]); heapify(goals, i, 0); }
RECURSIVE extract(_, _)
extract(goals, i) ==
    IF i >= 0 THEN extract(heapify(swap(goals, 0, i), i, 0), i - 1) ELSE goals

\* heapSort without its first loop
heapSortUnbuilt(goals) == extract(goals, Len(goals) - 1)

heapSort(goals) ==
    LET n == Len(goals)
    IN extract(buildHeap(goals, n, (n \div 2) - 1), n - 1)

----------------------------------------------------------------------------
(* Goals menu *)

\* the items a catalog of the Goals menu is drawn from (one of them no goal);
\* addGoal and loadDataFromFile store whatever number was read, so a Goal or
\* QuantifiableGoal can hold a progress outside [0, 1], -1 included
GoalPool ==
    {[kind |-> "NonQuantifiableGoal", progress |-> 0],
     [kind |-> "QuantifiableGoal", progress |-> 0],
     [kind |-> "QuantifiableGoal", progress |-> 5],
     [kind |-> "QuantifiableGoal", progress |-> 9],
     [kind |-> "Goal", progress |-> 5],
     [kind |-> "Goal", progress |-> -5],
     [kind |-> "Goal", progress |-> -10],
     [kind |-> "Goal", progress |-> -15],
     [kind |-> "Goal", progress |-> -20],
     [kind |-> "Task", deadline |-> D_2024, priority |-> 1]}

InitGoals ==
    /\ EngineOnly
    /\ items \in SeqUpTo(GoalPool, MaxGoals)
    /\ op = "none"
    /\ arg = <<>>
    /\ out = <<>>
    /\ notFound = FALSE
    /\ touched = {}
    /\ text = <<>>
    /\ pattern = <<>>
    /\ result = "none"

\* handleGoals, case 1: display every goal
DisplayAllGoals ==
    /\ UNCHANGED progvars
    /\ out' = CollectGoals(items, Len(items))
    /\ op' = "displayGoals"
    /\ UNCHANGED <<items, arg, notFound, touched, text, pattern, result>>

\* handleGoals, case 5: heapSort(allGoals) and display
SortByProgress ==
    /\ UNCHANGED progvars
    /\ out' = heapSort(CollectGoals(items, Len(items)))
    /\ op' = "sortProgress"
    /\ UNCHANGED <<items, arg, notFound, touched, text, pattern, result>>

NextGoals == DisplayAllGoals \/ SortByProgress

SpecGoals == InitGoals /\ [][NextGoals]_vars

----------------------------------------------------------------------------
(* Text search engine: KMP *)

\* the loop of computeKMPTable
RECURSIVE computeKMPTableLoop(_, _, _, _)
computeKMPTableLoop(pat, lps, len, i) ==
    IF i < Len(pat)
    THEN IF At(pat, i) = At(pat, len)
         THEN computeKMPTableLoop(pat, Put(lps, i, len + 1), len + 1, i + 1)
         ELSE IF len # 0
              THEN computeKMPTableLoop(pat, lps, At(lps, len - 1), i)
              ELSE computeKMPTableLoop(pat, Put(lps, i, 0), len, i + 1)
    ELSE lps

computeKMPTable(pat) ==
    computeKMPTableLoop(pat, [n \in 1..Len(pat) |-> 0], 0, 1)

\* a fallback that restarts the pattern
fallbackToStart(lps, j) == 0

\* a fallback that leaves j where it is
fallbackInPlace(lps, j) == j

\* the step of KMPSearch after a mismatch with j > 0: j = lps[j - 1]
fallback(lps, j) == At(lps, j - 1)

\* the loop of KMPSearch
RECURSIVE KMPSearchLoop(_, _, _, _, _)
KMPSearchLoop(txt, pat, lps, i, j) ==
    IF i < Len(txt)
    THEN IF At(txt, i) = At(pat, j)
         THEN IF j + 1 = Len(pat)
              THEN TRUE
              ELSE KMPSearchLoop(txt, pat, lps, i + 1, j + 1)
         ELSE IF j # 0
              THEN KMPSearchLoop(txt, pat, lps, i, fallback(lps, j))
              ELSE KMPSearchLoop(txt, pat, lps, i + 1, j)
    ELSE FALSE

\* KMPSearch with the empty pattern found everywhere
KMPSearchEmptyMatches(txt, pat) ==
    IF pat = <<>> THEN TRUE
    ELSE KMPSearchLoop(txt, pat, computeKMPTable(pat), 0, 0)

KMPSearch(txt, pat) ==
    IF pat = <<>> THEN FALSE
    ELSE KMPSearchLoop(txt, pat, computeKMPTable(pat), 0, 0)

\* the characters of the texts and patterns KMPSearch is run on: a, b
KMPAlphabet == {97, 98}

InitKMP ==
    /\ EngineOnly
    /\ text \in SeqUpTo(KMPAlphabet, MaxText)
    /\ pattern \in SeqUpTo(KMPAlphabet, MaxPattern)
    /\ result = "none"
    /\ items = <<>>
    /\ op = "none"
    /\ arg = <<>>
    /\ out = <<>>
    /\ notFound = FALSE
    /\ touched = {}

\* a call KMPSearch(text, pattern)
RunKMP ==
    /\ UNCHANGED progvars
    /\ op = "none"
    /\ result' = KMPSearch(text, pattern)
    /\ op' = "kmp"
    /\ UNCHANGED <<items, arg, out, notFound, touched, text, pattern>>

----------------------------------------------------------------------------
(* Text search engine: full-text search and tag search of the notes *)

\* tolower of the "C" locale on one character
tolower(c) == IF c >= 65 /\ c <= 90 THEN c + 32 ELSE c

\* toLowerCase that leaves the string as it is
toLowerCaseUnfolded(str) == str

toLowerCase(str) == [n \in 1..Len(str) |-> tolower(str[n])]

\* dynamic_cast<Note*>(item) != nullptr
IsNote(it) == it.kind \in NoteKinds

\* the loop of handleNotes that collects the Note pointers of the catalog
RECURSIVE CollectNotes(_, _)
CollectNotes(its, n) ==
    IF n = 0 THEN <<>>
    ELSE LET rest == CollectNotes(its, n - 1)
         IN IF IsNote(its[n]) THEN Append(rest, n) ELSE rest

\* the loop of searchNotesFullText over the tags: fullText += tag + " "
RECURSIVE appendTags(_, _, _)
appendTags(fullText, tags, n) ==
    IF n > Len(tags) THEN fullText
    ELSE appendTags(fullText \o tags[n] \o <<32>>, tags, n + 1)

\* the haystack of searchNotesFullText: title + " " + description + " ", then the tags
fullTextOf(note) == appendTags(note.title \o <<32>> \o note.description \o <<32>>, note.tags, 1)

\* the loop of searchNotesFullText: the notes displayed, in the order visited
RECURSIVE searchNotesFullTextLoop(_, _, _)
searchNotesFullTextLoop(notes, searchText, n) ==
    IF n > Len(notes) THEN <<>>
    ELSE IF KMPSearch(toLowerCase(fullTextOf(items[notes[n]])), toLowerCase(searchText))
         THEN <<notes[n]>> \o searchNotesFullTextLoop(notes, searchText, n + 1)
         ELSE searchNotesFullTextLoop(notes, searchText, n + 1)

searchNotesFullText(notes, searchText) ==
    LET shown == searchNotesFullTextLoop(notes, searchText, 1)
    IN [shown |-> shown, found |-> shown # <<>>]

\* a find that stops at the first tag containing the tag looked for
RECURSIVE findContaining(_, _, _)
findContaining(tags, tag, n) ==
    IF n > Len(tags) THEN n
    ELSE IF KMPSearch(tags[n], tag) THEN n
    ELSE findContaining(tags, tag, n + 1)

\* std::find(note->tags.begin(), note->tags.end(), tag) from position n on:
\* the position of the first tag equal to tag, Len(tags) + 1 for end()
RECURSIVE find(_, _, _)
find(tags, tag, n) ==
    IF n > Len(tags) THEN n
    ELSE IF tags[n] = tag THEN n
    ELSE find(tags, tag, n + 1)

\* the loop of searchNotesByTag: the notes displayed, in the order visited
RECURSIVE searchNotesByTagLoop(_, _, _)
searchNotesByTagLoop(notes, tag, n) ==
    IF n > Len(notes) THEN <<>>
    ELSE IF find(items[notes[n]].tags, tag, 1) # Len(items[notes[n]].tags) + 1
         THEN <<notes[n]>> \o searchNotesByTagLoop(notes, tag, n + 1)
         ELSE searchNotesByTagLoop(notes, tag, n + 1)

searchNotesByTag(notes, tag) ==
    LET shown == searchNotesByTagLoop(notes, tag, 1)
    IN [shown |-> shown, found |-> shown # <<>>]

----------------------------------------------------------------------------
(* Notes menu *)

\* the items a catalog of the Notes menu is drawn from (one of them no note),
\* written with the characters a (97), A (65), b (98) and the space (32):
\*   Note           "A"   "b"   [ab]
\*   PublicNote     "b"   ""    [a, Ab]
\*   ProtectedNote  "ab"  "a"   []        password "b"
\*   Note           "a"   "a"   [b]
\*   PublicNote     "a b" "B"   [A]
NotePool ==
    {[kind |-> "Note", title |-> <<65>>, description |-> <<98>>, tags |-> << <<97, 98>> >>],
     [kind |-> "PublicNote", title |-> <<98>>, description |-> <<>>,
      tags |-> << <<97>>, <<65, 98>> >>],
     [kind |-> "ProtectedNote", title |-> <<97, 98>>, description |-> <<97>>, tags |-> <<>>,
      password |-> <<98>>],
     [kind |-> "Note", title |-> <<97>>, description |-> <<97>>, tags |-> << <<98>> >>],
     [kind |-> "PublicNote", title |-> <<97, 32, 98>>, description |-> <<66>>,
      tags |-> << <<65>> >>],
     [kind |-> "Task", deadline |-> D_2024, priority |-> 1]}

\* the characters of a line typed at "Enter search text"
LineAlphabet == {97, 65, 98, 32}

\* the characters of a token read by cin >> tag: no white space
TokenAlphabet == {97, 65, 98}

InitNotes ==
    /\ EngineOnly
    /\ items \in SeqUpTo(NotePool, MaxNotes)
    /\ op = "none"
    /\ arg = <<>>
    /\ out = <<>>
    /\ notFound = FALSE
    /\ touched = {}
    /\ text = <<>>
    /\ pattern = <<>>
    /\ result = "none"

\* handleNotes, case 5: getline(cin, searchText); searchNotesFullText(notes, searchText)
FullTextSearch ==
    /\ UNCHANGED progvars
    /\ op = "none"
    /\ \E searchText \in SeqUpTo(LineAlphabet, MaxArg) :
          LET r == searchNotesFullText(CollectNotes(items, Len(items)), searchText)
          IN /\ arg' = searchText
             /\ out' = r.shown
             /\ notFound' = ~r.found
    /\ op' = "fullText"
    /\ UNCHANGED <<items, touched, text, pattern, result>>

\* handleNotes, case 6: cin >> tag; searchNotesByTag(notes, tag)
TagSearch ==
    /\ UNCHANGED progvars
    /\ op = "none"
    /\ \E tag \in SeqUpTo(TokenAlphabet, MaxArg) \ {<<>>} :
          LET r == searchNotesByTag(CollectNotes(items, Len(items)), tag)
          IN /\ arg' = tag
             /\ out' = r.shown
             /\ notFound' = ~r.found
    /\ op' = "tagSearch"
    /\ UNCHANGED <<items, touched, text, pattern, result>>

InitSearch == InitKMP \/ InitNotes

\* A behaviour of the search engine follows one command: the commands of the
\* Notes menu leave the catalog as it is, so every command starts from a
\* state like the initial one.
NextSearch == RunKMP \/ FullTextSearch \/ TagSearch

SpecSearch == InitSearch /\ [][NextSearch]_vars

----------------------------------------------------------------------------
(* Properties of the key-ordering engine *)

\* the pointers the Tasks menu sorts, in catalog order
TaskPtrs == {n \in 1..Len(items) : items[n].kind \in TaskKinds}

SortedTasksShown == op \in {"sortPriority", "sortDeadline"}

IsPermutationOf(s, S) == Len(s) = Cardinality(S) /\ {s[n] : n \in 1..Len(s)} = S

\* a <= b in the lexicographic order of character codes, stated without
\* recursion: a is a prefix of b, or the first position where they differ
\* holds a smaller code in a
LexLeq(a, b) ==
    \/ Len(a) <= Len(b) /\ \A n \in 1..Len(a) : a[n] = b[n]
    \/ \E n \in 1..Len(a) :
          /\ n <= Len(b)
          /\ a[n] < b[n]
          /\ \A m \in 1..(n - 1) : a[m] = b[m]

\* C3: after mergeSort(tasks, 0, size - 1) the tasks are in ascending order
\* of priority: priority[i] <= priority[i + 1] at every adjacent pair, for the
\* empty and the single-element vector too.
C3_SortedByPriority ==
    op = "sortPriority" =>
        /\ Len(out) = Cardinality(TaskPtrs)
        /\ \A n \in 1..(Len(out) - 1) : items[out[n]].priority <= items[out[n + 1]].priority

\* priorities 5, 1, 3 in catalog order come out as 1, 3, 5
C3_Witness ==
    /\ op = "sortPriority"
    /\ Len(items) = 3
    /\ <<items[1].kind, items[2].kind, items[3].kind>> \in TaskKinds \X TaskKinds \X TaskKinds
    /\ <<items[1].priority, items[2].priority, items[3].priority>> = <<5, 1, 3>>
    /\ out = <<2, 3, 1>>

\* C4: the output of mergeSort and of mergeSortByDeadline is a permutation of
\* the input (every task once), and every index merge reads or writes lies in
\* [left, right] of its call, inside the vector.
C4_Permutation ==
    SortedTasksShown =>
        /\ IsPermutationOf(out, TaskPtrs)
        /\ \A a \in touched :
              /\ a[1] <= a[3] /\ a[3] <= a[2]
              /\ 0 <= a[3] /\ a[3] < Cardinality(TaskPtrs)

\* four tasks that the sort reorders, every position of the vector accessed
C4_Witness ==
    /\ SortedTasksShown
    /\ Len(out) = 4
    /\ out # <<1, 2, 3, 4>>
    /\ {a[3] : a \in touched} = 0..3

\* C5: tasks with an equal key (priority under mergeSort, deadline text under
\* mergeSortByDeadline) keep their input order.
C5_Stable ==
    /\ op = "sortPriority" =>
          \A m, n \in 1..Len(out) :
              (m < n /\ items[out[m]].priority = items[out[n]].priority) => out[m] < out[n]
    /\ op = "sortDeadline" =>
          \A m, n \in 1..Len(out) :
              (m < n /\ items[out[m]].deadline = items[out[n]].deadline) => out[m] < out[n]

\* two tasks of equal key that the sort had to move past a third one
C5_Witness ==
    /\ SortedTasksShown
    /\ Len(out) >= 3
    /\ out[1] > out[2]
    /\ \E m, n \in 1..Len(out) :
          /\ m < n
          /\ out[m] < out[n]
          /\ IF op = "sortPriority"
             THEN items[out[m]].priority = items[out[n]].priority
             ELSE items[out[m]].deadline = items[out[n]].deadline
          /\ items[out[m]] # items[out[n]]

\* C6: mergeSortByDeadline orders by the lexicographic order of the deadline
\* characters and nothing else: the output is ascending in that order, with
\* no calendar reading of the text.
C6_DeadlineLexicographic ==
    op = "sortDeadline" =>
        /\ Len(out) = Cardinality(TaskPtrs)
        /\ \A n \in 1..(Len(out) - 1) :
              LexLeq(items[out[n]].deadline, items[out[n + 1]].deadline)

\* "2024-10-01" is shown before "2024-5-01" (May is before October), and
\* "No Deadline" after both
C6_Witness ==
    /\ op = "sortDeadline"
    /\ \E k, m, n \in 1..Len(out) :
          /\ k < m /\ m < n
          /\ items[out[k]].deadline = D_2024_10_01
          /\ items[out[m]].deadline = D_2024_5_01
          /\ items[out[n]].deadline = D_NoDeadline
          /\ out[k] > out[m]

----------------------------------------------------------------------------
(* Properties of the progress-ranking engine *)

\* the progress shown at position n of the sorted listing
Shown(n) == getProgress(items[out[n]])

C1_SentinelBeforeEveryOther ==
    op = "sortProgress" =>
        \A m, n \in 1..Len(out) : (Shown(m) = Sentinel /\ Shown(n) # Sentinel) => m < n

C2_AscendingEveryOther ==
    op = "sortProgress" =>
        \A m, n \in 1..Len(out) :
            (m < n /\ Shown(m) # Sentinel /\ Shown(n) # Sentinel) => Shown(m) <= Shown(n)

----------------------------------------------------------------------------
(* Properties of the text search engine *)

\* pat occurs in txt at offset k (0-based), character by character
OccursAt(txt, pat, k) == \A n \in 1..Len(pat) : txt[k + n] = pat[n]

\* pat is a contiguous substring of txt
Occurs(txt, pat) == \E k \in 0..(Len(txt) - Len(pat)) : OccursAt(txt, pat, k)

\* C7: for every text and every non-empty pattern KMPSearch(text, pattern) is
\* true exactly when the pattern occurs in the text as a contiguous substring.
C7_KMPIsSubstring ==
    (op = "kmp" /\ pattern # <<>>) => (result = Occurs(text, pattern))

\* "aab" is found in "aaab", after a fallback in the pattern
C7_Witness ==
    /\ op = "kmp"
    /\ text = <<97, 97, 97, 98>>
    /\ pattern = <<97, 97, 98>>
    /\ result = TRUE

\* C8: KMPSearch(text, "") is false for every text, the empty text included,
\* and a full-text search with an empty search text displays no note and
\* reports that no matching note was found, whatever the catalog holds.
C8_EmptyPatternMatchesNothing ==
    /\ (op = "kmp" /\ pattern = <<>>) => result = FALSE
    /\ (op = "fullText" /\ arg = <<>>) => (out = <<>> /\ notFound)

\* an empty search text on a catalog of three notes
C8_Witness ==
    /\ op = "fullText"
    /\ arg = <<>>
    /\ Len(items) = 3
    /\ \A n \in 1..3 : items[n].kind \in NoteKinds
    /\ out = <<>>
    /\ notFound

\* the pointers the Notes menu searches
NotePtrs == {n \in 1..Len(items) : items[n].kind \in NoteKinds}

\* s lists exactly the pointers of S, in catalog order
ListsInOrder(s, S) ==
    /\ IsPermutationOf(s, S)
    /\ \A m, n \in 1..Len(s) : m < n => s[m] < s[n]

\* the same character, or the same letter in the other case
SameLetter(c, d) ==
    \/ c = d
    \/ c \in 65..90 /\ d = c + 32
    \/ d \in 65..90 /\ c = d + 32

\* pat occurs in txt as a contiguous substring, letter case ignored
OccursFolded(txt, pat) ==
    \E k \in 0..(Len(txt) - Len(pat)) : \A n \in 1..Len(pat) : SameLetter(txt[k + n], pat[n])

\* the strings of ss joined by single spaces
RECURSIVE JoinBySpaces(_)
JoinBySpaces(ss) ==
    IF ss = <<>> THEN <<>>
    ELSE IF Len(ss) = 1 THEN ss[1]
    ELSE ss[1] \o <<32>> \o JoinBySpaces(Tail(ss))

\* the strings of ss, each followed by one space
RECURSIVE EachThenSpace(_)
EachThenSpace(ss) ==
    IF ss = <<>> THEN <<>> ELSE ss[1] \o <<32>> \o EachThenSpace(Tail(ss))

FieldsOf(note) == <<note.title, note.description>> \o note.tags

\* C9 as stated, for a search text that is not empty: the full-text search
\* selects exactly the notes whose haystack (title, description and every tag
\* joined by single spaces) contains the search text, letter case ignored, in
\* catalog order, and reports "no matching notes" exactly when it selects
\* none.
C9_JoinedHaystack ==
    (op = "fullText" /\ arg # <<>>) =>
        /\ ListsInOrder(out, {n \in NotePtrs : OccursFolded(JoinBySpaces(FieldsOf(items[n])), arg)})
        /\ notFound = (out = <<>>)

\* C9 amended: the full-text search selects exactly the notes whose haystack
\* (title, description and every tag, each followed by one space) contains
\* the search text, letter case ignored, provided the search text is not
\* empty, and no note when it is empty; the selection depends on the search
\* text only up to letter case (SameLetter), so search texts that differ only
\* in case select the same notes; the notes are shown in catalog order; "no
\* matching notes" is reported exactly when none is selected.
C9_FullTextSelection ==
    op = "fullText" =>
        /\ ListsInOrder(out, {n \in NotePtrs :
                arg # <<>> /\ OccursFolded(EachThenSpace(FieldsOf(items[n])), arg)})
        /\ notFound = (out = <<>>)

\* the search text "Ab" selects the first and the third note of the catalog,
\* which hold "ab" (a tag, a title), and not the second
C9_Witness ==
    /\ op = "fullText"
    /\ arg = <<65, 98>>
    /\ Len(items) = 3
    /\ out = <<1, 3>>
    /\ items[1].tags = << <<97, 98>> >>
    /\ items[2].kind \in NoteKinds
    /\ items[3].title = <<97, 98>>

\* C10: the tag search selects exactly the notes that have a tag equal to the
\* tag entered, character for character (same length, same case), in catalog
\* order, and reports "no notes found" exactly when it selects none.
C10_TagSelection ==
    op = "tagSearch" =>
        /\ ListsInOrder(out, {n \in NotePtrs :
                \E k \in 1..Len(items[n].tags) :
                    /\ Len(items[n].tags[k]) = Len(arg)
                    /\ \A c \in 1..Len(arg) : items[n].tags[k][c] = arg[c]})
        /\ notFound = (out = <<>>)

\* the note with tags [a, Ab] is found by "Ab" while a note whose tag "ab"
\* differs in case only is not; "b", contained in its tag, finds neither
C10_Witness ==
    /\ op = "tagSearch"
    /\ arg = <<65, 98>>
    /\ Len(items) = 2
    /\ items[1].kind = "Note" /\ items[1].tags = << <<97, 98>> >>
    /\ items[2].kind = "PublicNote" /\ items[2].tags = << <<97>>, <<65, 98>> >>
    /\ out = <<2>>
    /\ ~notFound

----------------------------------------------------------------------------
(* Input streams: istringstream ss(line) of loadDataFromFile and split *)

\* a stream over the characters buf: pos is the 0-based position of the next
\* character, eof and fail are eofbit and failbit
Stream(buf) == [buf |-> buf, pos |-> 0, eof |-> FALSE, fail |-> FALSE]

\* ios::good()
good(ss) == ~ss.eof /\ ~ss.fail

\* the position of the first delim at or after pos, Len(buf) when there is none
RECURSIVE delimAt(_, _, _)
delimAt(buf, pos, delim) ==
    IF pos >= Len(buf) THEN Len(buf)
    ELSE IF At(buf, pos) = delim THEN pos
    ELSE delimAt(buf, pos + 1, delim)

\* std::getline(ss, str, delim), str holding old before the call: a stream that
\* is not good fails and leaves str as it was; otherwise str is erased and
\* takes the characters up to the delimiter (extracted, not stored) or to the
\* end (eofbit); failbit when nothing at all was extracted.
\* The result is the stream and the value of str after the call.
getline(ss, old, delim) ==
    IF ~good(ss) THEN [ss |-> [ss EXCEPT !.fail = TRUE], val |-> old]
    ELSE LET q == delimAt(ss.buf, ss.pos, delim)
         IN IF q < Len(ss.buf)
            THEN [ss |-> [ss EXCEPT !.pos = q + 1], val |-> SubSeq(ss.buf, ss.pos + 1, q)]
            ELSE [ss |-> [ss EXCEPT !.pos = q, !.eof = TRUE, !.fail = (ss.pos = q)],
                  val |-> SubSeq(ss.buf, ss.pos + 1, q)]

\* the position of the first character at or after pos that is not in set
RECURSIVE skip(_, _, _)
skip(buf, pos, set) ==
    IF pos < Len(buf) /\ At(buf, pos) \in set THEN skip(buf, pos + 1, set) ELSE pos

Digits == 48..57

\* the number written by the digits buf[from .. to - 1] (0-based), 0 for none
RECURSIVE digitsValue(_, _, _)
digitsValue(buf, from, to) ==
    IF from >= to THEN 0
    ELSE 10 * digitsValue(buf, from, to - 1) + (At(buf, to - 1) - 48)

\* ss >> n for an int n holding old before the call (C++11): a stream that is
\* not good, or that ends in the white space skipped first, fails and leaves n
\* as it was; otherwise an optional sign and the digits are read, and n is 0
\* with failbit when there is no digit. eofbit when the end was reached.
extractInt(ss, old) ==
    IF ~good(ss) THEN [ss |-> [ss EXCEPT !.fail = TRUE], val |-> old]
    ELSE LET p == skip(ss.buf, ss.pos, {32})
         IN IF p >= Len(ss.buf)
            THEN [ss |-> [ss EXCEPT !.pos = p, !.eof = TRUE, !.fail = TRUE], val |-> old]
            ELSE LET neg == At(ss.buf, p) = 45
                     d == IF At(ss.buf, p) \in {43, 45} THEN p + 1 ELSE p
                     e == skip(ss.buf, d, Digits)
                     v == digitsValue(ss.buf, d, e)
                 IN IF e = d
                    THEN [ss |-> [ss EXCEPT !.pos = d, !.fail = TRUE, !.eof = (d >= Len(ss.buf))],
                          val |-> 0]
                    ELSE [ss |-> [ss EXCEPT !.pos = e, !.eof = (e >= Len(ss.buf))],
                          val |-> IF neg THEN 0 - v ELSE v]

\* ss >> x for a double x holding old before the call, as extractInt, reading
\* sign, digits, and a point with digits; the value is held in tenths (the
\* texts read here have at most one digit after the point)
extractDouble(ss, old) ==
    IF ~good(ss) THEN [ss |-> [ss EXCEPT !.fail = TRUE], val |-> old]
    ELSE LET p == skip(ss.buf, ss.pos, {32})
         IN IF p >= Len(ss.buf)
            THEN [ss |-> [ss EXCEPT !.pos = p, !.eof = TRUE, !.fail = TRUE], val |-> old]
            ELSE LET neg == At(ss.buf, p) = 45
                     d == IF At(ss.buf, p) \in {43, 45} THEN p + 1 ELSE p
                     e == skip(ss.buf, d, Digits)
                     point == e < Len(ss.buf) /\ At(ss.buf, e) = 46
                     f == IF point THEN skip(ss.buf, e + 1, Digits) ELSE e
                     tenths == IF point /\ f > e + 1 THEN At(ss.buf, e + 1) - 48 ELSE 0
                     v == ProgressUnit * digitsValue(ss.buf, d, e) + tenths
                 IN IF e = d /\ (~point \/ f = e + 1)
                    THEN [ss |-> [ss EXCEPT !.pos = f, !.fail = TRUE, !.eof = (f >= Len(ss.buf))],
                          val |-> 0]
                    ELSE [ss |-> [ss EXCEPT !.pos = f, !.eof = (f >= Len(ss.buf))],
                          val |-> IF neg THEN 0 - v ELSE v]

\* ss.ignore(): one character is extracted and dropped (eofbit at the end);
\* ss.ignore(1, ',') does the same, the character being the delimiter or not
ignore(ss) ==
    IF ~good(ss) THEN [ss EXCEPT !.fail = TRUE]
    ELSE IF ss.pos >= Len(ss.buf) THEN [ss EXCEPT !.eof = TRUE]
    ELSE [ss EXCEPT !.pos = ss.pos + 1]

\* the loop of split: while (getline(tokenStream, token, delimiter)) tokens.push_back(token)
RECURSIVE splitLoop(_, _, _)
splitLoop(ss, token, delimiter) ==
    LET g == getline(ss, token, delimiter)
    IN IF g.ss.fail THEN <<>>
       ELSE <<g.val>> \o splitLoop(g.ss, g.val, delimiter)

split(str, delimiter) == splitLoop(Stream(str), <<>>, delimiter)

\* the variant tags of the line format
Str_Task == <<84, 97, 115, 107>>
Str_RecurringTask == <<82, 101, 99, 117, 114, 114, 105, 110, 103, 84, 97, 115, 107>>
Str_OneTimeTask == <<79, 110, 101, 84, 105, 109, 101, 84, 97, 115, 107>>
Str_Note == <<78, 111, 116, 101>>
Str_ProtectedNote == <<80, 114, 111, 116, 101, 99, 116, 101, 100, 78, 111, 116, 101>>
Str_PublicNote == <<80, 117, 98, 108, 105, 99, 78, 111, 116, 101>>
Str_Goal == <<71, 111, 97, 108>>
Str_QuantifiableGoal == <<81, 117, 97, 110, 116, 105, 102, 105, 97, 98, 108, 101, 71, 111, 97, 108>>
Str_NonQuantifiableGoal == <<78, 111, 110, 81, 117, 97, 110, 116, 105, 102, 105, 97, 98, 108, 101, 71, 111, 97, 108>>

----------------------------------------------------------------------------
(* Ingestion: loadDataFromFile *)

MaxLines == 2
MaxItems == 2

\* what an int or double that was never written may hold when it is read
Indeterminate == {0, 7}

\* the locals of loadDataFromFile before the first line: the strings are
\* empty, priority and progress are not initialised; a numeric local is held
\* as the set of the values it may have
LoaderStart ==
    [title |-> <<>>, description |-> <<>>, deadline |-> <<>>, tags |-> <<>>,
     password |-> <<>>, interval |-> <<>>, priority |-> Indeterminate,
     progress |-> Indeterminate, lines |-> 0]

\* the Task branch of the loop body, l being the locals and priority the value the local
\* priority has before it: the locals after the line and the item built
loadTask(l, type, ss, priority) ==
    LET ti == getline(ss, l.title, 44)
        de == getline(ti.ss, l.description, 44)
        dl == getline(de.ss, l.deadline, 44)
        pr == extractInt(dl.ss, priority)
        ig == ignore(pr.ss)
        iv == IF type = Str_RecurringTask
              THEN getline(ig, l.interval, 10)
              ELSE [ss |-> ig, val |-> l.interval]
    IN [loader |-> [l EXCEPT !.title = ti.val, !.description = de.val,
                                  !.deadline = dl.val, !.priority = {pr.val},
                                  !.interval = iv.val, !.lines = @ + 1],
        item |-> IF type = Str_RecurringTask
                 THEN [kind |-> "RecurringTask", title |-> ti.val, description |-> de.val,
                       deadline |-> dl.val, priority |-> pr.val, interval |-> iv.val]
                 ELSE [kind |-> IF type = Str_OneTimeTask THEN "OneTimeTask" ELSE "Task",
                       title |-> ti.val, description |-> de.val,
                       deadline |-> dl.val, priority |-> pr.val]]

\* the Note branch of the loop body, l being the locals before it
loadNote(l, type, ss) ==
    LET ti == getline(ss, l.title, 44)
        de == getline(ti.ss, l.description, 44)
        tg == getline(de.ss, l.tags, 44)
        pw == IF type = Str_ProtectedNote
              THEN getline(tg.ss, l.password, 10)
              ELSE [ss |-> tg.ss, val |-> l.password]
        tagList == split(tg.val, 44)
    IN [loader |-> [l EXCEPT !.title = ti.val, !.description = de.val,
                                  !.tags = tg.val, !.password = pw.val, !.lines = @ + 1],
        item |-> IF type = Str_ProtectedNote
                 THEN [kind |-> "ProtectedNote", title |-> ti.val, description |-> de.val,
                       tags |-> tagList, password |-> pw.val]
                 ELSE [kind |-> IF type = Str_PublicNote THEN "PublicNote" ELSE "Note",
                       title |-> ti.val, description |-> de.val, tags |-> tagList]]

\* the Goal branch of the loop body, progress being the value the local
\* progress has before it
loadGoal(l, type, ss, progress) ==
    LET ti == getline(ss, l.title, 44)
        de == getline(ti.ss, l.description, 44)
        pr == extractDouble(de.ss, progress)
    IN [loader |-> [l EXCEPT !.title = ti.val, !.description = de.val,
                                  !.progress = {pr.val}, !.lines = @ + 1],
        item |-> [kind |-> IF type = Str_QuantifiableGoal THEN "QuantifiableGoal"
                           ELSE IF type = Str_NonQuantifiableGoal THEN "NonQuantifiableGoal"
                           ELSE "Goal",
                  title |-> ti.val, description |-> de.val, progress |-> pr.val]]

\* one turn of the while loop of loadDataFromFile on a line, l being the
\* locals before it and priority, progress the values of these two: the
\* locals after it, whether an item is pushed, and the item
ingest(l, line, priority, progress) ==
    LET ty == getline(Stream(line), <<>>, 44)
    IN IF ty.val \in {Str_Task, Str_RecurringTask, Str_OneTimeTask}
       THEN [built |-> TRUE] @@ loadTask(l, ty.val, ty.ss, priority)
       ELSE IF ty.val \in {Str_Note, Str_ProtectedNote, Str_PublicNote}
       THEN [built |-> TRUE] @@ loadNote(l, ty.val, ty.ss)
       ELSE IF ty.val \in {Str_Goal, Str_QuantifiableGoal, Str_NonQuantifiableGoal}
       THEN [built |-> TRUE] @@ loadGoal(l, ty.val, ty.ss, progress)
       ELSE [built |-> FALSE, loader |-> [l EXCEPT !.lines = @ + 1], item |-> <<>>]

\* the lines data.txt is made of:
\*   Line_Recurring: "RecurringTask,a,b,2024,5,w"
\*   Line_RecurringBadPriority: "RecurringTask,c,d,2024,x,m"
\*   Line_TaskTitleOnly: "Task,c"
\*   Line_Quantifiable: "QuantifiableGoal,a,b,1.5"
\*   Line_GoalNoProgress: "Goal,c,d"
\*   Line_Protected: "ProtectedNote,a,b,t,password123"
\*   Line_NoteNoTags: "Note,a,b,"
\*   Line_Unknown: "x"
Line_Recurring == <<82, 101, 99, 117, 114, 114, 105, 110, 103, 84, 97, 115, 107, 44, 97, 44, 98, 44, 50, 48, 50, 52, 44, 53, 44, 119>>
Line_RecurringBadPriority == <<82, 101, 99, 117, 114, 114, 105, 110, 103, 84, 97, 115, 107, 44, 99, 44, 100, 44, 50, 48, 50, 52, 44, 120, 44, 109>>
Line_TaskTitleOnly == <<84, 97, 115, 107, 44, 99>>
Line_Quantifiable == <<81, 117, 97, 110, 116, 105, 102, 105, 97, 98, 108, 101, 71, 111, 97, 108, 44, 97, 44, 98, 44, 49, 46, 53>>
Line_GoalNoProgress == <<71, 111, 97, 108, 44, 99, 44, 100>>
Line_Protected == <<80, 114, 111, 116, 101, 99, 116, 101, 100, 78, 111, 116, 101, 44, 97, 44, 98, 44, 116, 44, 112, 97, 115, 115, 119, 111, 114, 100, 49, 50, 51>>
Line_NoteNoTags == <<78, 111, 116, 101, 44, 97, 44, 98, 44>>
Line_Unknown == <<120>>

FileLines ==
    {Line_Recurring,
     Line_RecurringBadPriority,
     Line_TaskTitleOnly,
     Line_Quantifiable,
     Line_GoalNoProgress,
     Line_Protected,
     Line_NoteNoTags,
     Line_Unknown}

\* the state at the start of main: nothing loaded yet
Init ==
    /\ items = <<>>
    /\ op = "none"
    /\ arg = <<>>
    /\ out = <<>>
    /\ notFound = FALSE
    /\ touched = {}
    /\ text = <<>>
    /\ pattern = <<>>
    /\ result = "none"
    /\ menu = "load"
    /\ cinFail = FALSE
    /\ log = <<>>
    /\ cursor = 0
    /\ loader = LoaderStart
    /\ run = "none"

\* one turn of the while loop of loadDataFromFile, on a line of a known type
LoadItem ==
    /\ menu = "load"
    /\ loader.lines < MaxLines
    /\ Len(items) < MaxItems
    /\ \E line \in FileLines, priority \in loader.priority, progress \in loader.progress :
          LET r == ingest(loader, line, priority, progress)
          IN /\ r.built
             /\ items' = Append(items, r.item)
             /\ loader' = r.loader
             /\ arg' = line
    /\ op' = "loadItem"
    /\ UNCHANGED <<menu, cinFail, log, cursor, out, notFound, touched, text, pattern,
                   result, run>>

\* one turn of the loop on a line whose first field is no variant tag
LoadSkip ==
    /\ menu = "load"
    /\ loader.lines < MaxLines
    /\ \E line \in FileLines, priority \in loader.priority, progress \in loader.progress :
          LET r == ingest(loader, line, priority, progress)
          IN /\ ~r.built
             /\ loader' = r.loader
             /\ arg' = line
    /\ op' = "loadSkip"
    /\ UNCHANGED <<items, menu, cinFail, log, cursor, out, notFound, touched, text,
                   pattern, result, run>>

\* the end of the file: file.close(), the locals go out of scope and main
\* prints its menu
LoadEnd ==
    /\ menu = "load"
    /\ menu' = "main"
    /\ loader' = LoaderStart
    /\ op' = "loadEnd"
    /\ arg' = <<>>
    /\ UNCHANGED <<items, cinFail, log, cursor, out, notFound, touched, text, pattern,
                   result, run>>

----------------------------------------------------------------------------
(* cin, cout and the add operations *)

\* cin >> n for an int n holding old, token being the characters typed up
\* to the end of the line: on a stream that has failed nothing is read
cinInt(fail, token, old) ==
    IF fail THEN [fail |-> TRUE, val |-> old]
    ELSE LET r == extractInt(Stream(token), old)
         IN [fail |-> r.ss.fail, val |-> r.val]

\* cin >> x for a double x holding old
cinDouble(fail, token, old) ==
    IF fail THEN [fail |-> TRUE, val |-> old]
    ELSE LET r == extractDouble(Stream(token), old)
         IN [fail |-> r.ss.fail, val |-> r.val]

\* getline(cin, str) for str holding old: nothing is read on a failed stream
cinLine(fail, line, old) == IF fail THEN old ELSE line

\* the fields of an item that Item::display() writes
display(it) ==
    CASE it.kind = "RecurringTask" -> {"title", "deadline", "priority", "interval"}
      [] it.kind \in {"Task", "OneTimeTask"} -> {"title", "deadline", "priority"}
      [] it.kind \in {"Note", "PublicNote"} -> {"title", "tags"}
      [] it.kind = "ProtectedNote" -> {"title"}
      [] it.kind \in {"Goal", "QuantifiableGoal"} -> {"title", "progress"}
      [] it.kind = "NonQuantifiableGoal" -> {"title"}

\* the fields of an item that Item::getDetails() returns
getDetails(it) ==
    CASE it.kind = "RecurringTask" ->
             {"title", "description", "deadline", "priority", "interval"}
      [] it.kind \in {"Task", "OneTimeTask"} ->
             {"title", "description", "deadline", "priority"}
      [] it.kind \in NoteKinds -> {"title", "description", "tags"}
      [] it.kind \in GoalKinds -> {"title", "description", "progress"}

\* one piece of output: what it is, the catalog position of the item it is
\* about (0: none) and the fields of that item it shows
Event(e, ptr, fields) == [ev |-> e, item |-> ptr, shows |-> fields]

\* cout << "Invalid input. ..."
Invalid == Event("invalid", 0, {})

\* item->display() for every pointer of a vector, in order
displayEach(ptrs) == [n \in 1..Len(ptrs) |-> Event("display", ptrs[n], display(items[ptrs[n]]))]

\* cout << x->getDetails() for every pointer of a vector, in order
detailsEach(ptrs) == [n \in 1..Len(ptrs) |-> Event("details", ptrs[n], getDetails(items[ptrs[n]]))]

\* what a command leaves behind: its name, its input, the pointers it
\* displayed, its output and whether it printed a "No ... found" line
Command(name, input, shown, events, none) ==
    /\ op' = name
    /\ arg' = input
    /\ out' = shown
    /\ log' = events
    /\ notFound' = none
    /\ touched' = {}
    /\ UNCHANGED <<text, pattern, result, run, loader, cursor>>

Str_a == <<97>>
Str_t == <<116>>
Str_p == <<112>>
Str_w == <<119>>
Str_generic == <<103, 101, 110, 101, 114, 105, 99>>

\* what is typed at the prompts of the add operations
\* "x": a token that is no number
Tok_x == <<120>>
Tok_1 == <<49>>
Tok_2 == <<50>>
Tok_3 == <<51>>
\* "0.5", "1.5" and "-1"
Tok_Half == <<48, 46, 53>>
Tok_OneAndHalf == <<49, 46, 53>>
Tok_MinusOne == <<45, 49>>

TypeTokens == {Tok_1, Tok_2, Tok_3, Tok_x}
PriorityTokens == {Tok_1, Tok_x}
ProgressTokens == {Tok_Half, Tok_OneAndHalf, Tok_MinusOne, Tok_x}
TagsInputs == {<<>>, <<116, 44>>, <<44, 116>>}

\* main, case 5: addTask(items), then cin.ignore to the end of the line
AddTask ==
    /\ menu = "main" /\ ~cinFail
    /\ \E typeTok \in TypeTokens, priorityTok \in PriorityTokens :
          LET type == cinInt(FALSE, typeTok, 0)
              priority == cinInt(FALSE, priorityTok, 0)
          IN IF type.fail
             THEN /\ items' = items
                  /\ Command("addTask", <<typeTok>>, <<>>, <<Invalid>>, FALSE)
             ELSE IF priority.fail
             THEN /\ items' = items
                  /\ Command("addTask", <<typeTok, priorityTok>>, <<>>, <<Invalid>>, FALSE)
             ELSE /\ Len(items) < MaxItems
                  /\ items' = Append(items,
                        IF type.val = 2
                        THEN [kind |-> "RecurringTask", title |-> Str_a, description |-> Str_a,
                              deadline |-> D_2024, priority |-> priority.val,
                              interval |-> Str_w]
                        ELSE [kind |-> IF type.val = 1 THEN "OneTimeTask" ELSE "Task",
                              title |-> Str_a, description |-> Str_a,
                              deadline |-> D_2024, priority |-> priority.val])
                  /\ Command("addTask", <<typeTok, priorityTok>>, <<>>,
                             <<Event("added", Len(items) + 1, {})>>, FALSE)
    /\ UNCHANGED <<menu, cinFail>>

\* main, case 6: addGoal(items), then cin.ignore to the end of the line
AddGoal ==
    /\ menu = "main" /\ ~cinFail
    /\ Len(items) < MaxItems
    /\ \E typeTok \in TypeTokens, progressTok \in ProgressTokens :
          LET type == cinInt(FALSE, typeTok, 0)
              title == cinLine(type.fail, Str_a, <<>>)
              description == cinLine(type.fail, Str_a, <<>>)
              progress == IF type.val = 2 THEN [fail |-> type.fail, val |-> 0]
                          ELSE cinDouble(type.fail, progressTok, 0)
          IN /\ type.val = 2 => progressTok = Tok_Half
             /\ type.fail => progressTok = Tok_Half
             /\ items' = Append(items,
                   [kind |-> IF type.val = 1 THEN "QuantifiableGoal"
                             ELSE IF type.val = 2 THEN "NonQuantifiableGoal" ELSE "Goal",
                    title |-> title, description |-> description, progress |-> progress.val])
             /\ cinFail' = progress.fail
             /\ Command("addGoal",
                        IF type.val = 2 \/ type.fail THEN <<typeTok>> ELSE <<typeTok, progressTok>>,
                        <<>>, <<Event("added", Len(items) + 1, {})>>, FALSE)
    /\ UNCHANGED menu

\* RECURSIVE: the while loop of addNote over ss(tagsInput)
RECURSIVE addNoteTags(_, _, _)
addNoteTags(ss, tag, tags) ==
    LET g == getline(ss, tag, 44)
    IN IF g.ss.fail THEN tags
       ELSE addNoteTags(g.ss, IF g.val = <<>> THEN Str_generic ELSE g.val,
                        Append(tags, IF g.val = <<>> THEN Str_generic ELSE g.val))

\* main, case 7: addNote(items), then cin.ignore to the end of the line
AddNote ==
    /\ menu = "main" /\ ~cinFail
    /\ \E typeTok \in TypeTokens, typed \in TagsInputs :
          LET type == cinInt(FALSE, typeTok, 0)
              title == cinLine(type.fail, Str_a, <<>>)
              description == cinLine(type.fail, Str_a, <<>>)
              tagsInput == cinLine(type.fail, typed, <<>>)
              tags == addNoteTags(Stream(tagsInput), <<>>, <<>>)
          IN /\ type.fail => typed = <<>>
             /\ cinFail' = type.fail
             /\ IF type.val \in {1, 2, 3}
                THEN /\ Len(items) < MaxItems
                     /\ items' = Append(items,
                           IF type.val = 2
                           THEN [kind |-> "ProtectedNote", title |-> title,
                                 description |-> description, tags |-> tags,
                                 password |-> cinLine(type.fail, Str_p, <<>>)]
                           ELSE [kind |-> IF type.val = 1 THEN "PublicNote" ELSE "Note",
                                 title |-> title, description |-> description, tags |-> tags])
                     /\ Command("addNote", <<typeTok>>, <<>>,
                                <<Event("added", Len(items) + 1, {})>>, FALSE)
                ELSE /\ items' = items
                     /\ Command("addNote", <<typeTok>>, <<>>, <<>>, FALSE)
    /\ UNCHANGED menu

\* main: cin >> choice fails, on a token that is no number or because cin
\* has failed before: cin.clear(), cin.ignore to the end of the line, continue
MainInvalid ==
    /\ menu = "main"
    /\ cinFail' = FALSE
    /\ Command("invalid", <<>>, <<>>, <<Invalid>>, FALSE)
    /\ UNCHANGED <<items, menu>>

\* main, case 1: displayAllItems(items)
DisplayAllItems ==
    /\ menu = "main" /\ ~cinFail
    /\ Command("displayAll", <<>>, [n \in 1..Len(items) |-> n],
               displayEach([n \in 1..Len(items) |-> n]), FALSE)
    /\ UNCHANGED <<items, menu, cinFail>>

\* main, cases 2, 3, 4 and 8: a submenu is entered, or the loop is left
MainGoTo ==
    /\ menu = "main" /\ ~cinFail
    /\ \E m \in {"tasks", "goals", "notes", "exit"} :
          /\ menu' = m
          /\ Command(m, <<>>, <<>>, <<>>, FALSE)
    /\ UNCHANGED <<items, cinFail>>

----------------------------------------------------------------------------
(* The submenus: handleTasks, handleGoals, handleNotes *)

\* a submenu: cin >> choice fails; cin.clear(), cin.ignore, continue
SubmenuInvalid ==
    /\ menu \in {"tasks", "goals", "notes"}
    /\ Command("invalid", <<>>, <<>>, <<Invalid>>, FALSE)
    /\ UNCHANGED <<items, menu, cinFail>>

\* a submenu, "Go Back": return to the loop of main
GoBack ==
    /\ menu \in {"tasks", "goals", "notes"}
    /\ menu' = "main"
    /\ Command("back", <<>>, <<>>, <<>>, FALSE)
    /\ UNCHANGED <<items, cinFail>>

\* handleTasks, case 1: display() of every task
TasksDisplayAll ==
    /\ menu = "tasks"
    /\ LET tasks == CollectTasks(items, Len(items))
       IN Command("displayTasks", <<>>, tasks, displayEach(tasks), FALSE)
    /\ UNCHANGED <<items, menu, cinFail>>

\* handleTasks, cases 2, 3 and 4: getDetails() of the tasks of one variant
TasksDetails ==
    /\ menu = "tasks"
    /\ \E kind \in TaskKinds :
          LET tasks == CollectTasks(items, Len(items))
              shown == SelectSeq(tasks, LAMBDA t : items[t].kind = kind)
          IN Command("details" \o kind, <<>>, shown, detailsEach(shown), FALSE)
    /\ UNCHANGED <<items, menu, cinFail>>

\* a sort by priority that writes the sorted order back into the catalog
TasksSortInPlace ==
    /\ menu = "tasks"
    /\ LET tasks == CollectTasks(items, Len(items))
           sorted == mergeSort([t |-> tasks, acc |-> {}], 0, Len(tasks) - 1).t
       IN /\ items' = [n \in 1..Len(items) |->
                         IF \E k \in 1..Len(tasks) : tasks[k] = n
                         THEN items[sorted[CHOOSE k \in 1..Len(tasks) : tasks[k] = n]]
                         ELSE items[n]]
          /\ Command("sortPriority", <<>>, sorted, displayEach(sorted), FALSE)
    /\ UNCHANGED <<menu, cinFail>>

\* handleTasks, case 5: mergeSort on the vector tasks and display
TasksSortByPriority ==
    /\ menu = "tasks"
    /\ LET tasks == CollectTasks(items, Len(items))
           sorted == mergeSort([t |-> tasks, acc |-> {}], 0, Len(tasks) - 1).t
       IN Command("sortPriority", <<>>, sorted, displayEach(sorted), FALSE)
    /\ UNCHANGED <<items, menu, cinFail>>

\* handleTasks, case 6: mergeSortByDeadline on the vector tasks and display
TasksSortByDeadline ==
    /\ menu = "tasks"
    /\ LET tasks == CollectTasks(items, Len(items))
           sorted == mergeSortByDeadline([t |-> tasks, acc |-> {}], 0, Len(tasks) - 1).t
       IN Command("sortDeadline", <<>>, sorted, displayEach(sorted), FALSE)
    /\ UNCHANGED <<items, menu, cinFail>>

\* handleGoals, case 1: display() of every goal
GoalsDisplayAll ==
    /\ menu = "goals"
    /\ LET allGoals == CollectGoals(items, Len(items))
       IN Command("displayGoals", <<>>, allGoals, displayEach(allGoals), FALSE)
    /\ UNCHANGED <<items, menu, cinFail>>

\* handleGoals, case 2: the goals that are neither QuantifiableGoal nor
\* NonQuantifiableGoal by dynamic_cast
GoalsGeneric ==
    /\ menu = "goals"
    /\ LET allGoals == CollectGoals(items, Len(items))
           shown == SelectSeq(allGoals,
                       LAMBDA g : items[g].kind \notin {"QuantifiableGoal", "NonQuantifiableGoal"})
       IN Command("detailsGoal", <<>>, shown, detailsEach(shown), FALSE)
    /\ UNCHANGED <<items, menu, cinFail>>

\* handleGoals, case 3: the items that are QuantifiableGoal by dynamic_cast
GoalsQuantifiable ==
    /\ menu = "goals"
    /\ LET shown == SelectSeq([n \in 1..Len(items) |-> n],
                       LAMBDA i : items[i].kind = "QuantifiableGoal")
       IN Command("detailsQuantifiableGoal", <<>>, shown, detailsEach(shown), FALSE)
    /\ UNCHANGED <<items, menu, cinFail>>

\* handleGoals, case 4: the goals whose getProgress() == -1
GoalsNonQuantifiable ==
    /\ menu = "goals"
    /\ LET allGoals == CollectGoals(items, Len(items))
           shown == SelectSeq(allGoals, LAMBDA g : getProgress(items[g]) = Sentinel)
       IN Command("detailsNonQuantifiableGoal", <<>>, shown, detailsEach(shown), FALSE)
    /\ UNCHANGED <<items, menu, cinFail>>

\* handleGoals, case 5: heapSort on the vector allGoals and display
GoalsSortByProgress ==
    /\ menu = "goals"
    /\ LET sorted == heapSort(CollectGoals(items, Len(items)))
       IN Command("sortProgress", <<>>, sorted, displayEach(sorted), FALSE)
    /\ UNCHANGED <<items, menu, cinFail>>

\* handleNotes, case 1: display() of every note
NotesDisplayAll ==
    /\ menu = "notes"
    /\ LET notes == CollectNotes(items, Len(items))
       IN Command("displayNotes", <<>>, notes, displayEach(notes), FALSE)
    /\ UNCHANGED <<items, menu, cinFail>>

\* handleNotes, case 2: the notes that are neither ProtectedNote nor PublicNote
NotesGeneric ==
    /\ menu = "notes"
    /\ LET notes == CollectNotes(items, Len(items))
           shown == SelectSeq(notes,
                       LAMBDA n : items[n].kind \notin {"ProtectedNote", "PublicNote"})
       IN Command("detailsNote", <<>>, shown, detailsEach(shown), FALSE)
    /\ UNCHANGED <<items, menu, cinFail>>

\* handleNotes, case 4: the notes that are PublicNote
NotesUnprotected ==
    /\ menu = "notes"
    /\ LET notes == CollectNotes(items, Len(items))
           shown == SelectSeq(notes, LAMBDA n : items[n].kind = "PublicNote")
       IN Command("detailsPublicNote", <<>>, shown, detailsEach(shown), FALSE)
    /\ UNCHANGED <<items, menu, cinFail>>

\* the texts typed at the search prompts
SearchInputs == {Str_a, Str_t}

\* handleNotes, case 5: getline(cin, searchText); searchNotesFullText
NotesFullText ==
    /\ menu = "notes"
    /\ \E searchText \in SearchInputs \cup {<<>>} :
          LET r == searchNotesFullText(CollectNotes(items, Len(items)), searchText)
          IN Command("fullText", searchText, r.shown, displayEach(r.shown), ~r.found)
    /\ UNCHANGED <<items, menu, cinFail>>

\* handleNotes, case 6: cin >> tag; searchNotesByTag
NotesByTag ==
    /\ menu = "notes"
    /\ \E tag \in SearchInputs :
          LET r == searchNotesByTag(CollectNotes(items, Len(items)), tag)
          IN Command("byTag", tag, r.shown, displayEach(r.shown), ~r.found)
    /\ UNCHANGED <<items, menu, cinFail>>

----------------------------------------------------------------------------
(* handleNotes, case 3: the protected-notes view *)

\* the password the prompt of the view gives away: "password123"
Hint == <<112, 97, 115, 115, 119, 111, 114, 100, 49, 50, 51>>

\* what is typed at the password prompt
PasswordInputs == {<<>>, Str_p, Hint}

\* the 0-based position in notes of the first ProtectedNote at or after n,
\* Len(notes) when there is none
RECURSIVE nextProtected(_, _)
nextProtected(notes, n) ==
    IF n >= Len(notes) THEN Len(notes)
    ELSE IF items[At(notes, n)].kind = "ProtectedNote" THEN n
    ELSE nextProtected(notes, n + 1)

\* a view that asks again about the note just denied
promptAgain(notes, n) ==
    LET c == nextProtected(notes, IF n > 0 THEN n - 1 ELSE 0)
    IN IF c < Len(notes)
       THEN [menu |-> "protected", cursor |-> c,
             log |-> <<Event("prompt", At(notes, c), {"title", "hint"})>>]
       ELSE [menu |-> "notes", cursor |-> 0, log |-> <<Event("noaccess", 0, {})>>]

\* the for loop of the view from the note at position n up to its next read
\* of cin: the prompt for the next protected note, or the end of the loop
\* without access granted
promptFrom(notes, n) ==
    LET c == nextProtected(notes, n)
    IN IF c < Len(notes)
       THEN [menu |-> "protected", cursor |-> c,
             log |-> <<Event("prompt", At(notes, c), {"title", "hint"})>>]
       ELSE [menu |-> "notes", cursor |-> 0, log |-> <<Event("noaccess", 0, {})>>]

\* handleNotes, case 3, up to the first getline(cin, passwordInput)
NotesProtected ==
    /\ menu = "notes"
    /\ LET r == promptFrom(CollectNotes(items, Len(items)), 0)
       IN /\ menu' = r.menu
          /\ cursor' = r.cursor
          /\ log' = r.log
    /\ op' = "protected"
    /\ arg' = <<>>
    /\ out' = <<>>
    /\ notFound' = FALSE
    /\ touched' = {}
    /\ UNCHANGED <<items, cinFail, text, pattern, result, run, loader>>

\* handleNotes, case 3, from one getline(cin, passwordInput) to the next, or
\* to the end of the case
ProtectedAttempt ==
    /\ menu = "protected"
    /\ \E passwordInput \in PasswordInputs :
          LET notes == CollectNotes(items, Len(items))
              protectedNote == At(notes, cursor)
          IN /\ arg' = passwordInput
             /\ IF passwordInput = items[protectedNote].password
                THEN /\ log' = log \o <<Event("granted", protectedNote, {"title"}),
                                        Event("details", protectedNote,
                                              getDetails(items[protectedNote]))>>
                     /\ out' = <<protectedNote>>
                     /\ menu' = "notes"
                     /\ cursor' = 0
                ELSE LET r == promptFrom(notes, cursor + 1)
                     IN /\ log' = log \o <<Event("incorrect", protectedNote, {})>> \o r.log
                        /\ out' = out
                        /\ menu' = r.menu
                        /\ cursor' = r.cursor
    /\ op' = "protected"
    /\ UNCHANGED <<items, cinFail, notFound, touched, text, pattern, result, run, loader>>

----------------------------------------------------------------------------
(* The program: main *)

Next ==
    \/ LoadItem \/ LoadSkip \/ LoadEnd
    \/ AddTask \/ AddGoal \/ AddNote
    \/ MainInvalid \/ DisplayAllItems \/ MainGoTo
    \/ SubmenuInvalid \/ GoBack
    \/ TasksDisplayAll \/ TasksDetails \/ TasksSortByPriority \/ TasksSortByDeadline
    \/ GoalsDisplayAll \/ GoalsGeneric \/ GoalsQuantifiable \/ GoalsNonQuantifiable
    \/ GoalsSortByProgress
    \/ NotesDisplayAll \/ NotesGeneric \/ NotesUnprotected \/ NotesFullText \/ NotesByTag
    \/ NotesProtected \/ ProtectedAttempt

Spec == Init /\ [][Next]_vars

----------------------------------------------------------------------------
(* Properties of the catalog *)

\* C11: in every reachable catalog state every QuantifiableGoal has progress
\* within [0, 1], and no Goal or QuantifiableGoal yields the sentinel -1 from
\* getProgress(); only NonQuantifiableGoal items yield it.
C11_ProgressInRange ==
    \A n \in 1..Len(items) :
        /\ items[n].kind = "QuantifiableGoal" =>
              /\ items[n].progress >= 0
              /\ items[n].progress <= ProgressUnit
        /\ items[n].kind \in {"Goal", "QuantifiableGoal"} =>
              getProgress(items[n]) # Sentinel

\* addGoal has stored the sentinel itself in a QuantifiableGoal: type 1, progress -1
C11_Witness ==
    /\ op = "addGoal"
    /\ arg = <<Tok_1, Tok_MinusOne>>
    /\ items[Len(items)].kind = "QuantifiableGoal"
    /\ getProgress(items[Len(items)]) = Sentinel

\* C12: in every reachable catalog state every note has at least one tag and
\* no tag that is the empty string.
C12_TagsNonEmpty ==
    \A n \in 1..Len(items) :
        IsNote(items[n]) =>
            /\ Len(items[n].tags) > 0
            /\ \A k \in 1..Len(items[n].tags) : items[n].tags[k] # <<>>

\* addNote has built a note from an empty tag input: it has no tag at all
C12_Witness ==
    /\ op = "addNote"
    /\ menu = "main"
    /\ ~cinFail
    /\ items[Len(items)].kind = "PublicNote"
    /\ items[Len(items)].tags = <<>>

\* the locals of a loader that holds defaults only: empty text and 0
LoaderDefaults == [LoaderStart EXCEPT !.priority = {0}, !.progress = {0}]

\* C14: the item bulk load builds from a line is the item that line gives on
\* its own, with 0 and empty text for what could not be parsed: it takes no
\* value from an earlier line.
C14_ItemFromItsLineOnly ==
    (op = "loadItem") =>
        items[Len(items)] = ingest(LoaderDefaults, arg, 0, 0).item

\* the second line has no number for the priority: its item has priority 0
\* and the interval of the line before it
C14_Witness ==
    /\ op = "loadItem"
    /\ arg = Line_RecurringBadPriority
    /\ Len(items) = 2
    /\ items[1].kind = "RecurringTask"
    /\ items[1].interval = Str_w
    /\ items[2].priority = 0
    /\ items[2].interval = Str_w

\* C13: an add operation at which a token that is no number was typed at a
\* numeric prompt appends no item to the catalog.
C13_NoAppendOnBadToken ==
    [][(/\ op' \in {"addTask", "addGoal", "addNote"}
        /\ \E n \in 1..Len(arg') : arg'[n] = Tok_x)
       => items' = items]_vars

\* addGoal has appended a goal although its type was no number, and cin is
\* left failed for main to recover
C13_Witness ==
    /\ op = "addGoal"
    /\ arg = <<Tok_x>>
    /\ cinFail
    /\ items[Len(items)] = [kind |-> "Goal", title |-> <<>>, description |-> <<>>,
                            progress |-> 0]

\* C18: each of the three goal detail views lists exactly the goals of its
\* variant: NonQuantifiableGoal, QuantifiableGoal, plain Goal.
C18_ViewsPartitionGoals ==
    /\ op = "detailsNonQuantifiableGoal" =>
          {out[n] : n \in 1..Len(out)} =
              {i \in 1..Len(items) : items[i].kind = "NonQuantifiableGoal"}
    /\ op = "detailsQuantifiableGoal" =>
          {out[n] : n \in 1..Len(out)} =
              {i \in 1..Len(items) : items[i].kind = "QuantifiableGoal"}
    /\ op = "detailsGoal" =>
          {out[n] : n \in 1..Len(out)} =
              {i \in 1..Len(items) : items[i].kind = "Goal"}

\* the Non-Quantifiable view lists a QuantifiableGoal that holds -1
C18_Witness ==
    /\ op = "detailsNonQuantifiableGoal"
    /\ \E n \in 1..Len(out) : items[out[n]].kind = "QuantifiableGoal"

----------------------------------------------------------------------------
(* Properties of the protected-notes view *)

\* the pointers to the ProtectedNote items, in catalog order
ProtectedPtrs == SelectSeq([n \in 1..Len(items) |-> n],
                           LAMBDA i : items[i].kind = "ProtectedNote")

\* RECURSIVE: the output of k denials, for the first k protected notes in order
RECURSIVE Denied(_)
Denied(k) ==
    IF k = 0 THEN <<>>
    ELSE Denied(k - 1) \o <<Event("prompt", ProtectedPtrs[k], {"title", "hint"}),
                            Event("incorrect", ProtectedPtrs[k], {})>>

\* the view after k denials: it waits for the password of the next protected
\* note, or has granted access to it, or has run out of protected notes
C15_ViewAfter(k) ==
    \/ /\ k < Len(ProtectedPtrs)
       /\ log = Denied(k) \o <<Event("prompt", ProtectedPtrs[k + 1], {"title", "hint"})>>
       /\ menu = "protected"
       /\ At(CollectNotes(items, Len(items)), cursor) = ProtectedPtrs[k + 1]
    \/ /\ k < Len(ProtectedPtrs)
       /\ log = Denied(k) \o <<Event("prompt", ProtectedPtrs[k + 1], {"title", "hint"}),
                               Event("granted", ProtectedPtrs[k + 1], {"title"}),
                               Event("details", ProtectedPtrs[k + 1],
                                     {"title", "description", "tags"})>>
       /\ arg = items[ProtectedPtrs[k + 1]].password
       /\ menu = "notes"
       /\ ENABLED NotesDisplayAll
    \/ /\ k = Len(ProtectedPtrs)
       /\ log = Denied(k) \o <<Event("noaccess", 0, {})>>
       /\ menu = "notes"
       /\ ENABLED NotesDisplayAll

\* one step of the view: the catalog stays as it is, and a password that is
\* not the one of the note asked about is reported as incorrect for that note
C15_Attempt ==
    menu = "protected" =>
        /\ items' = items
        /\ LET asked == At(CollectNotes(items, Len(items)), cursor)
           IN arg' # items[asked].password =>
                 /\ Len(log') > Len(log)
                 /\ log'[Len(log) + 1] = Event("incorrect", asked, {})

----------------------------------------------------------------------------
(* The catalog as a whole *)

\* the operations that create an item
C16_Creators == {"loadItem", "addTask", "addGoal", "addNote"}

\* a step leaves the catalog as it is or appends one item at its end, and
\* only bulk load and the add operations append
C16_Step ==
    \/ items' = items
    \/ /\ Len(items') = Len(items) + 1
       /\ SubSeq(items', 1, Len(items)) = items
       /\ op' \in C16_Creators

\* a listing shows the items in insertion order, whatever was sorted before
C16_Listing ==
    /\ op = "displayAll" => out = [n \in 1..Len(items) |-> n]
    /\ op = "displayTasks" => out = CollectTasks(items, Len(items))
    /\ op = "displayGoals" => out = CollectGoals(items, Len(items))
    /\ op = "displayNotes" => out = CollectNotes(items, Len(items))

\* C16: every action leaves the catalog sequence unchanged or appends exactly
\* one item at its end; only bulk load and the add operations append; display,
\* the typed filters, the three sorts and the two searches change nothing of
\* the catalog, so a later listing shows insertion order again.
C16_AppendOnly ==
    /\ [][C16_Step]_vars
    /\ []C16_Listing

\* the tasks were shown sorted by priority, second item first, and the
\* catalog still has them in insertion order
C16_Witness ==
    /\ op = "sortPriority"
    /\ out = <<2, 1>>
    /\ items[1].priority = 5
    /\ items[2].priority = 1

----------------------------------------------------------------------------
(* What is displayed of a protected note *)

\* the events of the output that are about a ProtectedNote
C19_AboutProtected(n) ==
    /\ log[n].item > 0
    /\ items[log[n].item].kind = "ProtectedNote"

\* description and tags of a ProtectedNote are shown only in the protected
\* view, right after access was granted on a password equal to the stored one;
\* the generic and unprotected views list no ProtectedNote; a summary line of
\* a ProtectedNote shows its title only; no output reads the field password
C19_DetailGated ==
    /\ \A n \in 1..Len(log) :
          C19_AboutProtected(n) =>
              /\ "password" \notin log[n].shows
              /\ log[n].ev = "display" => log[n].shows = {"title"}
              /\ log[n].shows \cap {"description", "tags"} # {} =>
                    /\ op = "protected"
                    /\ log[n].ev = "details"
                    /\ n > 1
                    /\ log[n - 1] = Event("granted", log[n].item, {"title"})
                    /\ arg = items[log[n].item].password
    /\ op \in {"detailsNote", "detailsPublicNote"} =>
          \A n \in 1..Len(out) : items[out[n]].kind # "ProtectedNote"

\* the text of the prompt is not the stored password of the note asked about
C19_PromptKeepsPassword ==
    \A n \in 1..Len(log) :
        (C19_AboutProtected(n) /\ "hint" \in log[n].shows) =>
            items[log[n].item].password # Hint

\* C19: the description and tags of a ProtectedNote are displayed only in the
\* protected-notes view at a step where the password just entered equals the
\* stored one; the generic and unprotected views never show a ProtectedNote;
\* its summary line shows only its title; the stored password is never
\* displayed.
C19_NoDisclosure == C19_DetailGated /\ C19_PromptKeepsPassword

\* the view asks for the password of a note whose password is the one the
\* prompt prints, before anything was typed
C19_Witness ==
    /\ op = "protected"
    /\ menu = "protected"
    /\ Len(log) = 1
    /\ log[1].ev = "prompt"
    /\ "hint" \in log[1].shows
    /\ items[log[1].item].password = Hint

----------------------------------------------------------------------------
(* The engines, followed step by step *)

MaxRun == 3

\* a call of an engine under way: the engine, where it is, its vector (the
\* pointers being sorted, or lps), its loop variables i and j (len in
\* computeKMPTable), the calls of mergeSort or heapify not yet returned, and
\* what KMPSearch returns (read when it is done)
Call(eng, pc, v, i, j, stack) ==
    [eng |-> eng, pc |-> pc, v |-> v, i |-> i, j |-> j, stack |-> stack, ret |-> FALSE]

\* an engine has just been called, on a catalog or on a text and a pattern
InitEngines ==
    /\ menu = "engine"
    /\ cinFail = FALSE
    /\ log = <<>>
    /\ cursor = 0
    /\ loader = "closed"
    /\ op = "none"
    /\ arg = <<>>
    /\ out = <<>>
    /\ notFound = FALSE
    /\ touched = {}
    /\ result = "none"
    /\ \/ /\ items \in SeqUpTo(TaskPool, MaxRun)
          /\ text = <<>>
          /\ pattern = <<>>
          /\ \E eng \in {"mergeSort", "mergeSortByDeadline"} :
                LET tasks == CollectTasks(items, Len(items))
                IN run = Call(eng, "sort", tasks, 0, 0,
                              <<[left |-> 0, right |-> Len(tasks) - 1, st |-> "call"]>>)
       \/ /\ items \in SeqUpTo(GoalPool, MaxRun)
          /\ text = <<>>
          /\ pattern = <<>>
          /\ LET goals == CollectGoals(items, Len(items))
             IN run = Call("heapSort", "build", goals, (Len(goals) \div 2) - 1, 0, <<>>)
       \/ /\ items = <<>>
          /\ text \in SeqUpTo(KMPAlphabet, MaxText)
          /\ pattern \in SeqUpTo(KMPAlphabet, MaxPattern)
          /\ run = Call("KMPSearch", "entry", <<>>, 0, 0, <<>>)
       \/ /\ items = <<>>
          /\ text = <<>>
          /\ pattern \in SeqUpTo(KMPAlphabet, MaxPattern)
          /\ run = Call("computeKMPTable", "table", [n \in 1..Len(pattern) |-> 0], 1, 0, <<>>)

enginesframe == <<items, op, arg, out, notFound, touched, text, pattern, result,
                  menu, cinFail, log, cursor, loader>>

\* KMPSearch up to its loop: the empty pattern returns false, any other
\* pattern goes to computeKMPTable
SearchEntry ==
    /\ run.pc = "entry"
    /\ IF pattern = <<>>
       THEN run' = [run EXCEPT !.pc = "done", !.ret = FALSE]
       ELSE run' = [run EXCEPT !.pc = "table", !.v = [n \in 1..Len(pattern) |-> 0],
                               !.i = 1, !.j = 0]
    /\ UNCHANGED enginesframe

\* one turn of the while loop of computeKMPTable, or its return
TableStep ==
    /\ run.pc = "table"
    /\ LET lps == run.v
           len == run.j
           i == run.i
       IN IF i < Len(pattern)
          THEN IF At(pattern, i) = At(pattern, len)
               THEN run' = [run EXCEPT !.v = Put(lps, i, len + 1), !.j = len + 1, !.i = i + 1]
               ELSE IF len # 0
                    THEN run' = [run EXCEPT !.j = At(lps, len - 1)]
                    ELSE run' = [run EXCEPT !.v = Put(lps, i, 0), !.i = i + 1]
          ELSE IF run.eng = "KMPSearch"
               THEN run' = [run EXCEPT !.pc = "search", !.i = 0, !.j = 0]
               ELSE run' = [run EXCEPT !.pc = "done"]
    /\ UNCHANGED enginesframe

\* one turn of the while loop of KMPSearch, or its return
SearchStep ==
    /\ run.pc = "search"
    /\ LET lps == run.v
           i == run.i
           j == run.j
       IN IF i < Len(text)
          THEN IF At(text, i) = At(pattern, j)
               THEN IF j + 1 = Len(pattern)
                    THEN run' = [run EXCEPT !.pc = "done", !.ret = TRUE]
                    ELSE run' = [run EXCEPT !.i = i + 1, !.j = j + 1]
               ELSE IF j # 0
                    THEN run' = [run EXCEPT !.j = fallback(lps, j)]
                    ELSE run' = [run EXCEPT !.i = i + 1]
          ELSE run' = [run EXCEPT !.pc = "done", !.ret = FALSE]
    /\ UNCHANGED enginesframe

\* mergeSort or mergeSortByDeadline: the innermost call not yet returned
\* starts (and returns at once, or calls itself on the two halves), or merges
\* its halves and returns; the outermost call returns to handleTasks
MergeSortStep ==
    /\ run.pc = "sort"
    /\ IF run.stack = <<>>
       THEN run' = [run EXCEPT !.pc = "done"]
       ELSE LET call == Head(run.stack)
                left == call.left
                right == call.right
                mid == left + ((right - left) \div 2)
            IN IF call.st = "call"
               THEN IF left >= right
                    THEN run' = [run EXCEPT !.stack = Tail(run.stack)]
                    ELSE run' = [run EXCEPT !.stack =
                                    <<[left |-> left, right |-> mid, st |-> "call"],
                                      [left |-> mid + 1, right |-> right, st |-> "call"],
                                      [left |-> left, right |-> right, st |-> "merge"]>>
                                    \o Tail(run.stack)]
               ELSE run' = [run EXCEPT
                               !.v = IF run.eng = "mergeSort"
                                     THEN merge([t |-> run.v, acc |-> {}], left, mid, right).t
                                     ELSE mergeByDeadline([t |-> run.v, acc |-> {}],
                                                          left, mid, right).t,
                               !.stack = Tail(run.stack)]
    /\ UNCHANGED enginesframe

\* heapSort between two calls of heapify: the next turn of its first or of
\* its second loop, or its return
HeapSortStep ==
    /\ run.pc \in {"build", "extract"}
    /\ run.stack = <<>>
    /\ LET n == Len(run.v)
           i == run.i
       IN IF run.pc = "build"
          THEN IF i >= 0
               THEN run' = [run EXCEPT !.stack = <<[n |-> n, i |-> i]>>, !.i = i - 1]
               ELSE run' = [run EXCEPT !.pc = "extract", !.i = n - 1]
          ELSE IF i >= 0
               THEN run' = [run EXCEPT !.v = swap(run.v, 0, i),
                                       !.stack = <<[n |-> i, i |-> 0]>>, !.i = i - 1]
               ELSE run' = [run EXCEPT !.pc = "done"]
    /\ UNCHANGED enginesframe

\* one call of heapify: it swaps and calls itself on the child, or returns
HeapifyStep ==
    /\ run.pc \in {"build", "extract"}
    /\ run.stack # <<>>
    /\ LET goals == run.v
           n == Head(run.stack).n
           i == Head(run.stack).i
           left == 2 * i + 1
           right == 2 * i + 2
           l1 == IF left < n /\ childIsGreater(goals, left, i) THEN left ELSE i
           largest == IF right < n /\ childIsGreater(goals, right, l1) THEN right ELSE l1
       IN IF largest # i
          THEN run' = [run EXCEPT !.v = swap(goals, i, largest),
                                  !.stack = <<[n |-> n, i |-> largest]>>]
          ELSE run' = [run EXCEPT !.stack = <<>>]
    /\ UNCHANGED enginesframe

NextEngines ==
    SearchEntry \/ TableStep \/ SearchStep \/ MergeSortStep \/ HeapSortStep \/ HeapifyStep

\* an engine that was called goes on running: the program is sequential
SpecEngines == InitEngines /\ [][NextEngines]_vars /\ WF_vars(NextEngines)

\* what an engine followed step by step returns is what the engine computed
\* in one go returns
EnginesAgree ==
    run.pc = "done" =>
        CASE run.eng = "mergeSort" ->
                 LET tasks == CollectTasks(items, Len(items))
                 IN run.v = mergeSort([t |-> tasks, acc |-> {}], 0, Len(tasks) - 1).t
          [] run.eng = "mergeSortByDeadline" ->
                 LET tasks == CollectTasks(items, Len(items))
                 IN run.v = mergeSortByDeadline([t |-> tasks, acc |-> {}], 0, Len(tasks) - 1).t
          [] run.eng = "heapSort" -> run.v = heapSort(CollectGoals(items, Len(items)))
          [] run.eng = "computeKMPTable" -> run.v = computeKMPTable(pattern)
          [] run.eng = "KMPSearch" -> run.ret = KMPSearch(text, pattern)

\* the fallback step of KMPSearch: neither i nor the return has moved
C17_Fallback ==
    /\ run.pc = "search"
    /\ run'.pc = "search"
    /\ run'.i = run.i

\* C17: every engine runs to completion on every input: mergeSort and
\* mergeSortByDeadline (the empty range 0..-1 included), heapSort with its
\* recursive heapify, computeKMPTable and KMPSearch all return, and the
\* fallback step j = lps[j - 1] of KMPSearch strictly decreases j.
C17_Terminates ==
    /\ <>(run.pc = "done")
    /\ [][C17_Fallback => run'.j < run.j]_vars

\* KMPSearch has returned true on "aab" and "ab", after falling back once
C17_Witness ==
    /\ run.eng = "KMPSearch"
    /\ run.pc = "done"
    /\ text = <<97, 97, 98>>
    /\ pattern = <<97, 98>>
    /\ run.ret = TRUE

====
